---- MODULE Spec2Model ----
(***************************************************************************)
(* headr (src/headr/src/lib.rs): parse_positive_int, get_args, open, run.  *)
(*                                                                         *)
(* Text is modelled at the byte level: a token, a file name, a source's    *)
(* content and everything written to standard output are sequences of      *)
(* one-byte strings.  usize values are kept as canonical decimal digit     *)
(* sequences wherever their 64-bit width matters (the parser), and as      *)
(* naturals once they are small counts of a Config.                        *)
(***************************************************************************)
EXTENDS Integers, Sequences, FiniteSets, TLC

VARIABLES
    pc,        \* position of the program: "parse", "parsed" (the parser alone);
               \* "get_args", "exit", "failed" (get_args); "open", "read",
               \* "read_line", "drop", "done" (run)
    val,       \* the token handed to parse_positive_int
    res,       \* what parse_positive_int returned
    argv,      \* the command line as clap sees it: files, -n value, -c value
    config,    \* the Config get_args built, as an option (None before)
    file_num,  \* index of the source the run loop is at (0-based)
    iter,      \* iterations of the line loop done on the current source
    handles,   \* the streams that are open: records [id, data, pos]
    stdout,    \* the writes made to standard output, in order
    stderr,    \* the lines written to the error channel, in order, each with the
               \* index of the source it is about (-1: about no source)
    log,       \* per source reached: did open succeed, how many read calls
    result     \* what get_args / run returned (None while running)

vars == <<pc, val, res, argv, config, file_num, iter, handles, stdout, stderr, log, result>>

\* Option<T>: None, or Some(x) holding x
None == <<>>

Some(x) == <<x>>

Get(o) == o[1]

\* ------------------------------------------------------------------ bounds
MaxTokLen == 3
MaxFiles == 2
MaxLen == 2
MaxCount == 2

\* ----------------------------------------------------------------- helpers
SeqsUpTo(S, n) == UNION {[1..k -> S] : k \in 0..n}

Min(a, b) == IF a < b THEN a ELSE b

RECURSIVE Join(_)
\* the text of a byte sequence, as one string
Join(s) == IF s = <<>> THEN "" ELSE Head(s) \o Join(Tail(s))

RECURSIVE Concat(_)
\* the concatenation of a sequence of sequences
Concat(ss) == IF ss = <<>> THEN <<>> ELSE Head(ss) \o Concat(Tail(ss))

Take(s, n) == SubSeq(s, 1, Min(n, Len(s)))

\* ------------------------------------------------------ parse_positive_int
DigitChars == {"0", "1", "2", "3", "4", "5", "6", "7", "8", "9"}

DigitVal(c) ==
    CASE c = "0" -> 0 [] c = "1" -> 1 [] c = "2" -> 2 [] c = "3" -> 3
      [] c = "4" -> 4 [] c = "5" -> 5 [] c = "6" -> 6 [] c = "7" -> 7
      [] c = "8" -> 8 [] c = "9" -> 9

\* usize::MAX of a 64-bit target, 18446744073709551615, as decimal digits
UsizeMax == <<1, 8, 4, 4, 6, 7, 4, 4, 0, 7, 3, 7, 0, 9, 5, 5, 1, 6, 1, 5>>

RECURSIVE LexLE(_, _)
LexLE(a, b) ==
    IF a = <<>> THEN TRUE
    ELSE IF Head(a) # Head(b) THEN Head(a) < Head(b)
    ELSE LexLE(Tail(a), Tail(b))

\* a canonical digit sequence that fits a usize
FitsUsize(d) == Len(d) < Len(UsizeMax) \/ (Len(d) = Len(UsizeMax) /\ LexLE(d, UsizeMax))

\* result.checked_mul(10), then .checked_add(digit): None on overflow.  The
\* accumulator is canonical (no leading zero, <<0>> for zero).
MulTen(acc) == IF acc = <<0>> THEN <<0>> ELSE Append(acc, 0)

AddDigit(m, d) == [m EXCEPT ![Len(m)] = d]

RECURSIVE Accumulate(_, _)
Accumulate(chars, acc) ==
    IF chars = <<>> THEN [ok |-> TRUE, num |-> acc]
    ELSE IF Head(chars) \notin DigitChars THEN [ok |-> FALSE, kind |-> "InvalidDigit"]
    ELSE LET m == MulTen(acc)
             s == AddDigit(m, DigitVal(Head(chars)))
         IN  IF ~FitsUsize(m) \/ ~FitsUsize(s)
             THEN [ok |-> FALSE, kind |-> "PosOverflow"]
             ELSE Accumulate(Tail(chars), s)

\* str::parse::<usize>: an optional leading "+", then decimal digits only; a
\* "-" is no digit of an unsigned type
ParseUsize(s) ==
    IF s = <<>> THEN [ok |-> FALSE, kind |-> "Empty"]
    ELSE IF s = <<"+">> \/ s = <<"-">> THEN [ok |-> FALSE, kind |-> "InvalidDigit"]
    ELSE Accumulate(IF Head(s) = "+" THEN Tail(s) ELSE s, <<0>>)

Zero == <<0>>

\* variant: the num > 0 guard is missing
MutPositiveAllowsZero(v) ==
    LET p == ParseUsize(v)
    IN  IF p.ok THEN [ok |-> TRUE, num |-> p.num] ELSE [ok |-> FALSE, err |-> v]

\* Ok(num) if num > 0, otherwise the token itself as the error
parse_positive_int(v) ==
    LET p == ParseUsize(v)
    IN  IF p.ok /\ p.num # Zero THEN [ok |-> TRUE, num |-> p.num]
        ELSE [ok |-> FALSE, err |-> v]

\* e.to_string() of the boxed error built from a &str
ErrText(e) == Join(e)

RECURSIVE DecToNat(_)
\* a usize small enough to count with
DecToNat(d) == IF d = <<>> THEN 0 ELSE 10 * DecToNat(SubSeq(d, 1, Len(d) - 1)) + d[Len(d)]

\* ---------------------------------------------------------------- tokens
TokChars == {"0", "1", "7", "+", "-", "x"}

Str(n) == [i \in 1..n |-> "9"]

\* tokens around usize::MAX: the maximum, one more, twenty nines, twenty-one
\* digits, the maximum behind a sign or a zero
BoundaryTokens ==
    LET max == <<"1","8","4","4","6","7","4","4","0","7","3","7","0","9","5","5","1","6","1","5">>
        next == <<"1","8","4","4","6","7","4","4","0","7","3","7","0","9","5","5","1","6","1","6">>
    IN  {max, next, Str(20), Str(21), <<"+">> \o max, <<"0">> \o max, <<"0">> \o next,
         <<"-">> \o max, <<"1">> \o max}

ParseTokens == SeqsUpTo(TokChars, MaxTokLen) \cup BoundaryTokens

\* ------------------------------------------------- the parser on its own
Idle ==
    /\ argv = None /\ config = None /\ file_num = 0 /\ iter = 0
    /\ handles = {} /\ stdout = <<>> /\ stderr = <<>> /\ log = <<>> /\ result = None

InitParse ==
    /\ pc = "parse"
    /\ val \in ParseTokens
    /\ res = None
    /\ Idle

Parse ==
    /\ pc = "parse"
    /\ res' = parse_positive_int(val)
    /\ pc' = "parsed"
    /\ UNCHANGED <<val, argv, config, file_num, iter, handles, stdout, stderr, log, result>>

NextParse == Parse

SpecParse == InitParse /\ [][NextParse]_vars

\* --------------------------------------------------------------- get_args
Stdin == <<"-">>

Names == {Stdin, <<"A">>}

FileLists == SeqsUpTo(Names, MaxFiles)

DigitCharOf(n) == CHOOSE c \in DigitChars : DigitVal(c) = n

\* the values given to -n and -c: the counts 1..MaxCount, and tokens that are
\* zero, non-numeric, negative
ArgTokens ==
    {<<DigitCharOf(n)>> : n \in 1..MaxCount} \cup {<<"0">>, <<"x">>, <<"-", "1">>}

ArgOptions == {None} \cup {Some(t) : t \in ArgTokens}

\* .default_value("-") and .default_value("10")
DefaultFiles == <<Stdin>>

DefaultLines == <<"1", "0">>

\* variant: the byte count is not validated and no conflict is raised
MutGetArgsSkipsBytesCheck(a) ==
    LET lines == parse_positive_int(IF a.lines = None THEN DefaultLines ELSE Get(a.lines))
    IN  IF ~lines.ok
        THEN [kind |-> "err", msg |-> "illegal line count -- " \o ErrText(lines.err)]
        ELSE [kind |-> "ok",
              config |-> [files |-> IF a.files = <<>> THEN DefaultFiles ELSE a.files,
                          lines |-> DecToNat(lines.num),
                          bytes |-> IF a.bytes = None \/ ~parse_positive_int(Get(a.bytes)).ok
                                    THEN None
                                    ELSE Some(DecToNat(parse_positive_int(Get(a.bytes)).num))]]

\* clap rejects -n together with -c (conflicts_with: it prints its error and
\* exits the process); then the line count is validated, then the byte count
get_args(a) ==
    IF a.lines # None /\ a.bytes # None
    THEN [kind |-> "exit", msg |-> "ArgumentConflict"]
    ELSE LET lines == parse_positive_int(IF a.lines = None THEN DefaultLines ELSE Get(a.lines))
             bytes == IF a.bytes = None THEN None ELSE Some(parse_positive_int(Get(a.bytes)))
         IN  IF ~lines.ok
             THEN [kind |-> "err", msg |-> "illegal line count -- " \o ErrText(lines.err)]
             ELSE IF bytes # None /\ ~Get(bytes).ok
             THEN [kind |-> "err", msg |-> "illegal byte count -- " \o ErrText(Get(bytes).err)]
             ELSE [kind |-> "ok",
                   config |-> [files |-> IF a.files = <<>> THEN DefaultFiles ELSE a.files,
                               lines |-> DecToNat(lines.num),
                               bytes |-> IF bytes = None THEN None
                                         ELSE Some(DecToNat(Get(bytes).num))]]

\* ------------------------------------------------------------ the streams
LF == "\n"

\* a byte that no UTF-8 sequence contains (0xFF)
BadByte == "<FF>"

ByteAlphabet == {"a", LF, BadByte}

Contents == SeqsUpTo(ByteAlphabet, MaxLen)

\* U+FFFD as UTF-8
Replacement == <<"<EF>", "<BF>", "<BD>">>

IsUtf8(bytes) == \A i \in 1..Len(bytes) : bytes[i] # BadByte

\* String::from_utf8_lossy followed by the write of the string's bytes
Utf8Lossy(bytes) ==
    Concat([i \in 1..Len(bytes) |-> IF bytes[i] = BadByte THEN Replacement ELSE <<bytes[i]>>])

OpenCauses == {"No such file or directory (os error 2)", "Permission denied (os error 13)"}

ReadCauses == {"Is a directory (os error 21)"}

InvalidData == "stream did not contain valid UTF-8"

\* the bytes read_line appends: up to and including the next newline, or
\* to the end of the data
NextLine(data, pos) ==
    LET rest == SubSeq(data, pos + 1, Len(data))
        nl == {i \in 1..Len(rest) : rest[i] = LF}
    IN  IF nl = {} THEN rest
        ELSE SubSeq(rest, 1, CHOOSE i \in nl : \A j \in nl : i <= j)

\* what one read call into a buffer of n bytes may return: 0 at the end of the
\* data only, otherwise any count from 1 up to what is asked and left
ReadSizes(h, n) ==
    LET left == Len(h.data) - h.pos
    IN  IF left = 0 \/ n = 0 THEN {0} ELSE 1..Min(n, left)

\* -------------------------------------------------------------------- run
Cfg == Get(config)

num_files == Len(Cfg.files)

filename == Cfg.files[file_num + 1]

\* the stream the current iteration owns
File == CHOOSE h \in handles : h.id = file_num

Ok == Some([ok |-> TRUE])

Err(msg) == Some([ok |-> FALSE, msg |-> msg])

\* println!("{}==> {} <==", if file_num > 0 { "\n" } else { "" }, filename)
Header(n, name) ==
    (IF n > 0 THEN <<LF>> ELSE <<>>) \o <<"=", "=", ">", " ">> \o name
        \o <<" ", "<", "=", "=">> \o <<LF>>

\* variant: the header does not depend on the number of sources
MutAlwaysHeader(n) == TRUE

WantsHeader(n) == n > 1

\* eprintln!("{}: {}", filename, e)
Diagnostic(name, cause) == Join(name) \o ": " \o cause \o "\n"

Reached(opened) == log' = Append(log, [opened |-> opened, reads |-> 0])

CountRead == log' = [log EXCEPT ![Len(log)].reads = @ + 1]

\* the for loop moves to the next source, or run returns Ok(())
Advance ==
    /\ file_num' = file_num + 1
    /\ IF file_num + 1 < num_files
       THEN pc' = "open" /\ result' = result
       ELSE pc' = "done" /\ result' = Ok

\* open(&filename) failed: the diagnostic, and on to the next source
OpenFail(cause) ==
    /\ filename # Stdin
    /\ stderr' = Append(stderr, [file_num |-> file_num, text |-> Diagnostic(filename, cause)])
    /\ Reached(FALSE)
    /\ Advance
    /\ UNCHANGED <<handles, stdout, iter>>

\* open(&filename) returned a stream over `data`; the header when there are
\* several sources; then byte mode if config.bytes is Some, else line mode
OpenOk(data) ==
    /\ handles' = handles \cup {[id |-> file_num, data |-> data, pos |-> 0]}
    /\ stdout' = IF WantsHeader(num_files)
                 THEN Append(stdout, [file_num |-> file_num, kind |-> "header",
                                      text |-> Header(file_num, filename)])
                 ELSE stdout
    /\ Reached(TRUE)
    /\ iter' = 0
    /\ pc' = IF Cfg.bytes # None THEN "read" ELSE "read_line"
    /\ UNCHANGED <<stderr, file_num, result>>

Open ==
    /\ pc = "open"
    /\ \/ \E cause \in OpenCauses : OpenFail(cause)
       \/ \E data \in Contents : OpenOk(data)
    /\ UNCHANGED <<val, res, argv, config>>

\* a read call failed: the ? operator returns the error from run
ReadFails(cause) ==
    /\ result' = Err(cause)
    /\ pc' = "drop"
    /\ CountRead
    /\ UNCHANGED <<handles, stdout, stderr, file_num, iter>>

Write(text) == Append(stdout, [file_num |-> file_num, kind |-> "data", text |-> text])

\* byte mode: one read of a Take limited to num_bytes into a buffer of
\* num_bytes, and the print of what it returned
Read ==
    /\ pc = "read"
    /\ \/ \E cause \in ReadCauses : ReadFails(cause)
       \/ \E n \in ReadSizes(File, Get(Cfg.bytes)) :
            /\ stdout' = Write(Utf8Lossy(SubSeq(File.data, File.pos + 1, File.pos + n)))
            /\ handles' = (handles \ {File}) \cup {[File EXCEPT !.pos = @ + n]}
            /\ CountRead
            /\ pc' = "drop"
            /\ UNCHANGED <<stderr, file_num, iter, result>>
    /\ UNCHANGED <<val, res, argv, config>>

\* variant: the loop runs to the end of the source
MutLoopIgnoresCount(done) == TRUE

\* for _ in 0..config.lines: is there another iteration after `done` of them
LoopContinues(done) == done < Cfg.lines

\* line mode: one iteration of for _ in 0..config.lines
ReadLine ==
    /\ pc = "read_line"
    /\ \/ \E cause \in ReadCauses : ReadFails(cause)
       \/ LET line == NextLine(File.data, File.pos)
          IN  IF ~IsUtf8(line) THEN ReadFails(InvalidData)
              ELSE /\ CountRead
                   /\ handles' = (handles \ {File}) \cup {[File EXCEPT !.pos = @ + Len(line)]}
                   /\ UNCHANGED <<stderr, file_num, result>>
                   /\ IF Len(line) = 0
                      THEN pc' = "drop" /\ UNCHANGED <<stdout, iter>>
                      ELSE /\ stdout' = Write(line)
                           /\ iter' = iter + 1
                           /\ pc' = IF LoopContinues(iter + 1) THEN "read_line" ELSE "drop"
    /\ UNCHANGED <<val, res, argv, config>>

\* variant: the stream outlives its iteration
MutDropKeepsStream == handles

\* the streams left open when `file` goes out of scope
Released == handles \ {File}

\* the end of the Ok arm (or the early return): the stream is dropped
Drop ==
    /\ pc = "drop"
    /\ handles' = Released
    /\ IF result # None
       THEN pc' = "done" /\ UNCHANGED <<file_num, result>>
       ELSE Advance
    /\ UNCHANGED <<val, res, argv, config, iter, stdout, stderr, log>>

\* what clap prints for -n together with -c, whichever came first (the usage
\* text that follows is left out)
ConflictMessages ==
    {"error: The argument '--lines <LINES>' cannot be used with '--bytes <BYTES>'\n",
     "error: The argument '--bytes <BYTES>' cannot be used with '--lines <LINES>'\n"}

\* get_args: on a conflict clap writes its message to the error channel and
\* exits inside get_matches; an invalid count is returned as the error
GetArgs ==
    /\ pc = "get_args"
    /\ LET r == get_args(argv)
       IN  CASE r.kind = "exit" ->
                  /\ pc' = "exit" /\ result' = Err(r.msg) /\ config' = config
                  /\ \E text \in ConflictMessages :
                        stderr' = Append(stderr, [file_num |-> -1, text |-> text])
             [] r.kind = "err" ->
                  pc' = "failed" /\ result' = Err(r.msg) /\ config' = config /\ stderr' = stderr
             [] r.kind = "ok" ->
                  pc' = "open" /\ result' = result /\ config' = Some(r.config) /\ stderr' = stderr
    /\ UNCHANGED <<val, res, argv, file_num, iter, handles, stdout, log>>

Init ==
    /\ pc = "get_args"
    /\ argv \in [files : FileLists, lines : ArgOptions, bytes : ArgOptions]
    /\ val = None /\ res = None
    /\ config = None /\ file_num = 0 /\ iter = 0
    /\ handles = {} /\ stdout = <<>> /\ stderr = <<>> /\ log = <<>> /\ result = None

Next == GetArgs \/ Open \/ Read \/ ReadLine \/ Drop

Spec == Init /\ [][Next]_vars

\* ===================================================================
\* The properties checked
\* ===================================================================
Running == config # None

Terminated == pc \in {"done", "exit", "failed"}

LineMode == Running /\ Cfg.bytes = None

ByteMode == Running /\ Cfg.bytes # None

\* the bytes standard output has received
Bytes == Concat([k \in 1..Len(stdout) |-> stdout[k].text])

\* the places in stdout of the writes of one kind made for source i
WritesOf(i, kind) == {k \in 1..Len(stdout) : stdout[k].file_num = i /\ stdout[k].kind = kind}

\* the content written for source i
DataOf(i) ==
    Concat([k \in 1..Len(stdout) |->
              IF stdout[k].file_num = i /\ stdout[k].kind = "data" THEN stdout[k].text ELSE <<>>])

IoCauses == {Err(c) : c \in ReadCauses}

\* ---- C1 ----------------------------------------------------------------
\* a token that is a base-10 integer: an optional sign, then digits
Digits(tok) == IF tok # <<>> /\ Head(tok) \in {"+", "-"} THEN Tail(tok) ELSE tok

IsInteger(tok) == Digits(tok) # <<>> /\ \A i \in 1..Len(Digits(tok)) : Digits(tok)[i] \in DigitChars

\* its magnitude, as decimal digits without leading zeros
Magnitude(tok) ==
    LET d == [i \in 1..Len(Digits(tok)) |-> DigitVal(Digits(tok)[i])]
        nz == {i \in 1..Len(d) : d[i] # 0}
    IN  IF nz = {} THEN <<0>>
        ELSE SubSeq(d, CHOOSE i \in nz : \A j \in nz : i <= j, Len(d))

IsPositiveInteger(tok) == IsInteger(tok) /\ Head(tok) # "-" /\ Magnitude(tok) # <<0>>

Rejected == ~res.ok /\ ErrText(res.err) = Join(val)

\* C1 as claimed: every base-10 integer token with value > 0 parses to that
\* value; every other token fails with the token unchanged as the error text.
C1_Original ==
    pc = "parsed" =>
        IF IsPositiveInteger(val) THEN res.ok /\ res.num = Magnitude(val) ELSE Rejected

\* C1 (amended): a base-10 integer token with 0 < value <= usize::MAX parses to
\* exactly that value; "0", a negative or non-numeric token, and an integer
\* above usize::MAX all fail, the error text being the token unchanged.
C1_ParsePositiveInt ==
    pc = "parsed" =>
        IF IsPositiveInteger(val) /\ FitsUsize(Magnitude(val))
        THEN res.ok /\ res.num = Magnitude(val)
        ELSE Rejected

\* usize::MAX itself, behind a sign it may carry, is parsed
C1_Witness ==
    /\ pc = "parsed" /\ res.ok /\ res.num = UsizeMax /\ Head(val) = "+"

\* ---- C2 ----------------------------------------------------------------
\* the first min(n, number of lines) lines of data: up to and including the
\* n-th newline, or all of it when it has fewer than n newlines
FirstLines(data, n) ==
    LET nl == {i \in 1..Len(data) : data[i] = LF}
    IN  IF Cardinality(nl) < n THEN data
        ELSE SubSeq(data, 1, CHOOSE p \in nl : Cardinality({q \in nl : q <= p}) = n)

\* the line loop on the current source is over and no read met an I/O error
LinesCopied == LineMode /\ pc = "drop" /\ result \notin IoCauses

\* C2 as claimed: in line mode, for every source content and every
\* line_count >= 1, once the line loop on a source is over the content written
\* for it is exactly its first min(line_count, lines) lines, and no error was
\* raised.
C2_Original ==
    LinesCopied => result = None /\ DataOf(file_num) = FirstLines(File.data, Cfg.lines)

\* ---- C3 ----------------------------------------------------------------
\* C3 as claimed (here for text that is valid UTF-8): in byte mode the content
\* written for a source is exactly its first min(byte_count, length) bytes,
\* however the stream splits its data across read calls.
C3_ByteModeExact ==
    (ByteMode /\ pc = "drop" /\ result = None /\ IsUtf8(File.data))
        => DataOf(file_num) = Take(File.data, Get(Cfg.bytes))

\* ---- C4 ----------------------------------------------------------------
HeaderLine(name) == <<"=", "=", ">", " ">> \o name \o <<" ", "<", "=", "=">>

\* C4: with more than one source, every opened source has exactly one header
\* `==> name <==`, written before any of its content with nothing between,
\* headers in list order, none for a source that did not open; with exactly
\* one source no header is ever written.
C4_Headers ==
    Running =>
        /\ num_files = 1 => \A k \in 1..Len(stdout) : stdout[k].kind # "header"
        /\ num_files > 1 =>
             \A i \in 1..Len(log) :
                LET hs == WritesOf(i - 1, "header")
                    name == Cfg.files[i]
                IN  IF log[i].opened
                    THEN /\ Cardinality(hs) = 1
                         /\ \A k \in hs :
                              /\ stdout[k].text \in {HeaderLine(name) \o <<LF>>,
                                                     <<LF>> \o HeaderLine(name) \o <<LF>>}
                              /\ k > 1 => stdout[k - 1].file_num < i - 1
                              /\ \A d \in WritesOf(i - 1, "data") : d > k
                    ELSE hs = {} /\ WritesOf(i - 1, "data") = {}
        /\ \A k \in 2..Len(stdout) :
              stdout[k].kind = "header" => stdout[k - 1].file_num < stdout[k].file_num

\* two sources, both opened, each with its header and some content
C4_Witness ==
    /\ Running /\ pc = "done" /\ num_files = 2
    /\ Cardinality(WritesOf(0, "header")) = 1 /\ Cardinality(WritesOf(1, "header")) = 1
    /\ DataOf(0) # <<>> /\ DataOf(1) # <<>>

\* ---- C5 ----------------------------------------------------------------
\* C5 as claimed: in a multi-source run, whichever sources open or fail to
\* open, standard output never starts with an empty line.
C5_NoLeadingBlankLine ==
    (Running /\ num_files > 1 /\ stdout # <<>>) => Head(Bytes) # LF

\* ---- C6 ----------------------------------------------------------------
\* a source that failed to open has exactly one diagnostic `name: cause` (and
\* only such sources have one), the loop then stands at the next source, every
\* source is reached before run returns, and run returns success unless a read
\* failed
OpenFailuresReported ==
    /\ \A i \in 1..Len(log) :
          LET ds == {k \in 1..Len(stderr) : stderr[k].file_num = i - 1}
          IN  IF log[i].opened THEN ds = {}
              ELSE /\ Cardinality(ds) = 1
                   /\ \A k \in ds : \E cause \in OpenCauses :
                        stderr[k].text = Join(Cfg.files[i]) \o ": " \o cause \o "\n"
    /\ \A k \in 1..Len(stderr) : stderr[k].file_num < Len(log)
    /\ (log # <<>> /\ ~log[Len(log)].opened /\ Len(log) < num_files)
          => pc = "open" /\ file_num = Len(log) /\ result = None
    /\ pc = "done" =>
          \/ result = Ok /\ Len(log) = num_files
          \/ result \in IoCauses \cup {Err(InvalidData)}

\* the truncated content of a source: its first min(byte_count, length) bytes
\* in byte mode, its first min(line_count, lines) lines in line mode
Truncated(data) ==
    IF Cfg.bytes # None THEN Take(data, Get(Cfg.bytes)) ELSE FirstLines(data, Cfg.lines)

\* a source opened after one that failed to open has been copied without error
\* (its content being text)
LaterSourceCopied ==
    /\ pc = "drop" /\ result = None /\ IsUtf8(File.data)
    /\ \E i \in 1..Len(log) : ~log[i].opened

\* C6 as claimed: a source that fails to open never halts run: one diagnostic
\* `name: cause` per failed source, every later source is still opened and its
\* full truncated content written to standard output, and run returns success
\* when open failures are the only errors.
C6_OpenFailureIsolated ==
    Running =>
        /\ OpenFailuresReported
        /\ LaterSourceCopied => DataOf(file_num) = Truncated(File.data)

\* ---- C7 ----------------------------------------------------------------
\* C7 as claimed: a read error is recovered per source, so run never returns
\* a failure and has reached every source when it returns.
C7_ReadErrorRecovered ==
    (Running /\ pc = "done") => result = Ok /\ Len(log) = num_files

\* ---- C8 ----------------------------------------------------------------
Given(opt) == opt # None

Invalid(opt) == Given(opt) /\ ~IsPositiveInteger(Get(opt))

\* C8: -n together with -c is a conflict error; otherwise an invalid line
\* count fails with `illegal line count -- <token>`, an invalid byte count with
\* `illegal byte count -- <token>`; in all these cases no Config is produced,
\* no source is opened or read and nothing is written; and a Config is
\* produced only from a command line with none of these errors.
C8_ConfigErrors ==
    pc \notin {"get_args", "parse", "parsed"} =>
        LET conflict == Given(argv.lines) /\ Given(argv.bytes)
        IN  /\ conflict => pc = "exit" /\ result = Err("ArgumentConflict")
            /\ (~conflict /\ Invalid(argv.lines))
                  => pc = "failed"
                     /\ result = Err("illegal line count -- " \o Join(Get(argv.lines)))
            /\ (~conflict /\ Invalid(argv.bytes))
                  => pc = "failed"
                     /\ result = Err("illegal byte count -- " \o Join(Get(argv.bytes)))
            /\ pc \in {"exit", "failed"}
                  => /\ config = None /\ log = <<>> /\ handles = {}
                     /\ stdout = <<>>
                     /\ IF pc = "exit"
                        THEN Len(stderr) = 1 /\ stderr[1].text \in ConflictMessages
                        ELSE stderr = <<>>
                     /\ conflict \/ Invalid(argv.lines) \/ Invalid(argv.bytes)

\* -c 0 was refused
C8_Witness ==
    /\ pc = "failed" /\ result = Err("illegal byte count -- 0") /\ config = None

\* ---- C9 ----------------------------------------------------------------
\* C9: at most one stream is open, it is the current source's, it is released
\* before the next source is opened and before run returns, and the writes to
\* standard output are in source order.
C9_OneAtATime ==
    /\ Cardinality(handles) <= 1
    /\ \A h \in handles : h.id = file_num /\ pc \in {"read", "read_line", "drop"}
    /\ pc \in {"open", "done"} => handles = {}
    /\ \A k \in 2..Len(stdout) : stdout[k - 1].file_num <= stdout[k].file_num
    /\ stdout # <<>> => stdout[Len(stdout)].file_num <= file_num

\* the second source is being read after the first was opened, copied and
\* released
C9_Witness ==
    /\ Running /\ file_num = 1 /\ pc \in {"read", "read_line"}
    /\ log[1].opened /\ DataOf(0) # <<>>
    /\ Cardinality(handles) = 1

\* ---- C10 ---------------------------------------------------------------
\* the read calls a source may take
ReadLimit == IF Cfg.bytes # None THEN 1 ELSE Cfg.lines

\* an upper bound on the steps run still has to take
Rank ==
    IF ~Running \/ Terminated THEN 0
    ELSE LET left == num_files - file_num
             per == ReadLimit + 2
         IN  CASE pc = "open" -> left * per
               [] pc \in {"read", "read_line"} -> left * per - 1 - log[Len(log)].reads
               [] pc = "drop" -> (left - 1) * per + 1

ReadsBounded ==
    Running =>
        /\ \A i \in 1..Len(log) : log[i].reads <= ReadLimit
        /\ pc = "read_line" => log[Len(log)].reads = iter /\ iter < Cfg.lines
        /\ pc = "read" => log[Len(log)].reads = 0
        /\ (ByteMode /\ pc = "drop" /\ result = None)
              => log[Len(log)].reads = 1 /\ File.pos <= Get(Cfg.bytes)
        /\ Len(log) <= num_files
        /\ (pc = "done" /\ result = Ok) => Len(log) = num_files

\* C10: a source takes at most line_count read_line calls, none after one
\* that returned zero bytes, or exactly one read of at most byte_count bytes;
\* every step of run lowers a bound fixed by the configuration, and run never
\* stops before it has returned.
C10_Terminates ==
    /\ []ReadsBounded
    /\ [](Running /\ ~Terminated => ENABLED Next)
    /\ [][Running => (Rank' < Rank /\ Rank' >= 0)]_vars

\* a source longer than the line count was left after line_count reads
C10_Witness ==
    /\ LineMode /\ pc = "drop" /\ result = None
    /\ log[Len(log)].reads = Cfg.lines
    /\ File.pos < Len(File.data)

====
